---- MODULE Spec2Model ----
(***************************************************************************)
(* Cardiac component tracking and heart-block classification               *)
(* (server/services/critical-ekg-service.ts): CardiacComponentTracker,     *)
(* HeartBlockDetector and MorphologyValidator.  The classes keep no        *)
(* fields, so the state is the analysis object a caller holds, the last    *)
(* call made on it and what that call returned or threw.                   *)
(*                                                                         *)
(* Numbers.  Event times are integers (milliseconds).  A JavaScript number *)
(* the code computes is one of                                             *)
(*     [k |-> "num", v |-> i]   the integer i                              *)
(*     [k |-> "inf", v |-> 0]   Infinity                                   *)
(*     [k |-> "nan", v |-> 0]   NaN                                        *)
(* Averages and variances are kept as exact fractions and compared by      *)
(* cross-multiplication.  The detector's confidences are in hundredths     *)
(* (0.95 is 95); the morphology confidence, a sum and a quotient of        *)
(* doubles, is held as an exact double.                                    *)
(*                                                                         *)
(* Agent orchestration (server/services/agent-orchestration.ts over        *)
(* MemStorage, server/storage.ts): the pools, tasks and logs of the store, *)
(* the service's taskQueue and processingTasks, and the callbacks waiting  *)
(* on a timer or on the AI service.  A handler runs from one timer or I/O  *)
(* wait to the next without interruption: the store's promises resolve in  *)
(* the same turn of the event loop.  Times are in milliseconds.            *)
(***************************************************************************)
EXTENDS Integers, Sequences, FiniteSets, TLC

VARIABLES analysis, call, ret,
          agentPools, tasks, activityLogs, currentTaskId,   \* MemStorage
          taskQueue, processingTasks,                       \* AgentOrchestrationService
          timers, aiCalls                                   \* pending callbacks

\* the storage, the orchestration service and the callbacks they wait for
orchestration ==
  <<agentPools, tasks, activityLogs, currentTaskId, taskQueue, processingTasks, timers, aiCalls>>

vars == <<analysis, call, ret, orchestration>>

-----------------------------------------------------------------------------
(* Bounds of the model *)

MaxLen == 4
MaxPairs == 10
MaxSeries == 4
MaxComponents == 7

(* Program constants *)

MsPerMinute == 60000
RateMinEvents == 2
RegularityMinEvents == 3
CompleteBlockRateDiff == 20
PartialBlockRateDiff == 10
TrackerPartialRateDiff == 10
PRLow == 120
PRHigh == 300
DissociationPct == 70
RhythmVariancePct == 15
PWaveVariancePct == 10
ConfidenceComplete == 95
ConfidenceSecondDegree == 80
ConfidenceNoBlock == 90
SharpOnsetSlope == 50
DefaultOnsetSlope == 60
SharpOnsetDuration == 120
DefaultSharpDuration == 90
RoundedPeakSharpness == 30
DefaultPeakSharpness == 40
RoundedDuration == 150
DefaultRoundedDuration == 160
DefaultQRSDuration == 80
WideQRSWidth == 120

-----------------------------------------------------------------------------
(* JavaScript values *)

Num(i) == [k |-> "num", v |-> i]
Infinity == [k |-> "inf", v |-> 0]
NaN == [k |-> "nan", v |-> 0]

Undefined == [shape |-> "undefined"]
List(items) == [shape |-> "list", items |-> items]
NumberValue == [shape |-> "number"]
StringValue == [shape |-> "string", chars |-> 3]
ObjectValue == [shape |-> "object"]

Return(v) == [threw |-> FALSE, value |-> v]
Throw(e) == [threw |-> TRUE, error |-> e]

\* x || [] of identifyPWavesByCriteria / identifyQRSByCriteria: undefined is
\* falsy; a list, a non-zero number, a non-empty string and an object are truthy.
OrEmptyList(x) == IF x.shape = "undefined" THEN List(<<>>) ELSE x

\* x.length: a number for a list and a string, undefined (here NaN, which
\* compares and computes the same way) for a number or a plain object.
Length(x) ==
  CASE x.shape = "list" -> Num(Len(x.items))
    [] x.shape = "string" -> Num(x.chars)
    [] OTHER -> NaN

\* a < n for a JavaScript number a and an integer n
Less(a, n) == a.k = "num" /\ a.v < n
\* a > n
Greater_OrEqual(a, n) == a.k = "inf" \/ (a.k = "num" /\ a.v >= n)

Greater(a, n) == a.k = "inf" \/ (a.k = "num" /\ a.v > n)

\* Math.abs(a - b)
AbsDiff(a, b) ==
  CASE a.k = "nan" \/ b.k = "nan" -> NaN
    [] a.k = "inf" /\ b.k = "inf" -> NaN
    [] a.k = "inf" \/ b.k = "inf" -> Infinity
    [] OTHER -> Num(IF a.v >= b.v THEN a.v - b.v ELSE b.v - a.v)

\* Math.min(a, b)
MathMin(a, b) ==
  IF a.k = "nan" \/ b.k = "nan" THEN NaN
  ELSE IF a.v <= b.v THEN a ELSE b

\* x[i].time - x[i-1].time for the i the loops visit (0-based i = 1 .. length-1).
\* The elements of a string are characters, whose .time is undefined: the
\* difference is NaN, flagged by nan.  A number or an object has no length and
\* the loop body never runs.
Intervals(x) ==
  CASE x.shape = "list" ->
         [nan |-> FALSE,
          d |-> [i \in 1..(Len(x.items) - 1) |-> x.items[i + 1].time - x.items[i].time]]
    [] x.shape = "string" ->
         [nan |-> x.chars >= 2, d |-> <<>>]
    [] OTHER -> [nan |-> FALSE, d |-> <<>>]

RECURSIVE SumSeq(_)
SumSeq(s) == IF s = <<>> THEN 0 ELSE s[1] + SumSeq(Tail(s))

RECURSIVE SumSquares(_)
SumSquares(s) == IF s = <<>> THEN 0 ELSE s[1] * s[1] + SumSquares(Tail(s))

\* the quotient cut to an integer instead of rounded
RoundedRate_Floor(sum, n) ==
  IF sum = 0 THEN Infinity
  ELSE IF sum > 0
       THEN Num((MsPerMinute * n) \div sum)
       ELSE Num(0 - ((MsPerMinute * n) \div (0 - sum)))

\* Math.round(60000 / (sum / n)) for integers sum and n > 0: Math.round is
\* floor(x + 0.5); 60000 / 0 is Infinity.
RoundedRate(sum, n) ==
  IF sum = 0 THEN Infinity
  ELSE IF sum > 0
       THEN Num((2 * MsPerMinute * n + sum) \div (2 * sum))
       ELSE Num((0 - (2 * MsPerMinute * n + sum)) \div (0 - 2 * sum))

\* intervals.reduce(...) / intervals.length, then Math.round(60000 / avgInterval)
RateOfIntervals(iv) ==
  IF iv.nan \/ Len(iv.d) = 0 THEN NaN
  ELSE RoundedRate(SumSeq(iv.d), Len(iv.d))

\* variance < avgInterval * pct / 100, with avgInterval = S / n and
\* variance = sum((d - S/n)^2) / n = (n * sum(d^2) - S^2) / n^2; for integers
\* v * 100 < limit is v < ceiling(limit / 100), which keeps the products small
VarianceBelow(iv, pct) ==
  /\ ~iv.nan
  /\ Len(iv.d) > 0
  /\ LET n == Len(iv.d)
         S == SumSeq(iv.d)
         limit == pct * S * n
     IN  n * SumSquares(iv.d) - S * S < 0 - ((0 - limit) \div 100)

-----------------------------------------------------------------------------
(* HeartBlockDetector *)

calculateRate(complexes) ==
  IF Less(Length(complexes), RateMinEvents) THEN Num(0)
  ELSE RateOfIntervals(Intervals(complexes))

\* Math.min(pWaves.length, qrsComplexes.length): the loop bound and the divisor
PairBound_Max(pWaves, qrsComplexes) ==
  LET a == Length(pWaves)
      b == Length(qrsComplexes)
  IN  IF a.k = "nan" \/ b.k = "nan" THEN NaN ELSE IF a.v >= b.v THEN a ELSE b

PairBound(pWaves, qrsComplexes) == MathMin(Length(pWaves), Length(qrsComplexes))

\* the indices i the loop of checkAVDissociation visits (0-based)
PairIndices(pWaves, qrsComplexes) ==
  LET b == PairBound(pWaves, qrsComplexes)
  IN  IF b.k = "num" THEN 0..(b.v - 1) ELSE {}

\* x[i] is undefined, so that x[i].time throws a TypeError
ElementMissing(x, i) ==
  CASE x.shape = "list" -> i >= Len(x.items)
    [] x.shape = "string" -> i >= x.chars
    [] OTHER -> TRUE

\* prInterval > 120 && prInterval < 300 for pair i; NaN for a character's time
\* the lower bound of the window taken as inclusive
ConsistentPair_Inclusive(pWaves, qrsComplexes, i) ==
  /\ pWaves.shape = "list" /\ qrsComplexes.shape = "list"
  /\ LET prInterval == qrsComplexes.items[i + 1].time - pWaves.items[i + 1].time
     IN  prInterval >= PRLow /\ prInterval < PRHigh

ConsistentPair(pWaves, qrsComplexes, i) ==
  /\ pWaves.shape = "list" /\ qrsComplexes.shape = "list"
  /\ LET prInterval == qrsComplexes.items[i + 1].time - pWaves.items[i + 1].time
     IN  prInterval > PRLow /\ prInterval < PRHigh

checkAVDissociation(pWaves, qrsComplexes) ==
  LET idx == PairIndices(pWaves, qrsComplexes)
      b == PairBound(pWaves, qrsComplexes)
  IN  IF \E i \in idx : ElementMissing(pWaves, i) \/ ElementMissing(qrsComplexes, i)
      THEN Throw("TypeError")
      ELSE LET consistentRelationships ==
                 Cardinality({i \in idx : ConsistentPair(pWaves, qrsComplexes, i)})
           IN  Return(/\ b.k = "num"
                      /\ b.v > 0
                      /\ consistentRelationships * 100 < DissociationPct * b.v)

assessRhythmRegularity_FourEvents(complexes) ==
  IF Less(Length(complexes), RegularityMinEvents + 1) THEN FALSE
  ELSE VarianceBelow(Intervals(complexes), RhythmVariancePct)

assessRhythmRegularity(complexes) ==
  IF Less(Length(complexes), RegularityMinEvents) THEN FALSE
  ELSE VarianceBelow(Intervals(complexes), RhythmVariancePct)

assessIndependentRhythms_Either(pWaves, qrsComplexes) ==
  assessRhythmRegularity(pWaves) \/ assessRhythmRegularity(qrsComplexes)

assessIndependentRhythms(pWaves, qrsComplexes) ==
  assessRhythmRegularity(pWaves) /\ assessRhythmRegularity(qrsComplexes)

\* a first-degree class for small rate differences
checkPartialBlocks_FirstDegree(pWaves, qrsComplexes) ==
  LET atrialRate == calculateRate(pWaves)
      ventricularRate == calculateRate(qrsComplexes)
      rateDifference == AbsDiff(atrialRate, ventricularRate)
  IN  IF Greater(rateDifference, PartialBlockRateDiff)
      THEN [type |-> "SECOND_DEGREE_BLOCK",
            confidence |-> ConfidenceSecondDegree,
            urgency |-> "URGENT",
            evidence |-> << <<"Rate difference: ", rateDifference, " bpm suggests AV block">> >>,
            action |-> "CARDIOLOGY EVALUATION RECOMMENDED"]
      ELSE [type |-> IF Greater(rateDifference, 0) THEN "FIRST_DEGREE_BLOCK" ELSE "NO_BLOCK",
            confidence |-> ConfidenceNoBlock,
            urgency |-> "ROUTINE",
            evidence |-> << <<"Normal AV conduction pattern">> >>,
            action |-> "ROUTINE FOLLOW-UP"]

checkPartialBlocks(pWaves, qrsComplexes) ==
  LET atrialRate == calculateRate(pWaves)
      ventricularRate == calculateRate(qrsComplexes)
      rateDifference == AbsDiff(atrialRate, ventricularRate)
  IN  IF Greater(rateDifference, PartialBlockRateDiff)
      THEN [type |-> "SECOND_DEGREE_BLOCK",
            confidence |-> ConfidenceSecondDegree,
            urgency |-> "URGENT",
            evidence |-> << <<"Rate difference: ", rateDifference, " bpm suggests AV block">> >>,
            action |-> "CARDIOLOGY EVALUATION RECOMMENDED"]
      ELSE [type |-> "NO_BLOCK",
            confidence |-> ConfidenceNoBlock,
            urgency |-> "ROUTINE",
            evidence |-> << <<"Normal AV conduction pattern">> >>,
            action |-> "ROUTINE FOLLOW-UP"]

\* the complete block reported as routine
CompleteHeartBlockDetection_Routine(atrialRate, ventricularRate) ==
  [type |-> "COMPLETE_HEART_BLOCK",
   confidence |-> ConfidenceComplete,
   urgency |-> "ROUTINE",
   evidence |-> << <<"Atrial rate: ", atrialRate, " bpm (P waves)">>,
                   <<"Ventricular rate: ", ventricularRate, " bpm (QRS)">>,
                   <<"No consistent P-QRS relationship">>,
                   <<"P waves march independently of QRS">> >>,
   action |-> "IMMEDIATE CARDIOLOGY CONSULTATION"]

\* the object returned when all three rules hold
CompleteHeartBlockDetection_Urgent(atrialRate, ventricularRate) ==
  [type |-> "COMPLETE_HEART_BLOCK",
   confidence |-> ConfidenceComplete,
   urgency |-> "URGENT",
   evidence |-> << <<"Atrial rate: ", atrialRate, " bpm (P waves)">>,
                   <<"Ventricular rate: ", ventricularRate, " bpm (QRS)">>,
                   <<"No consistent P-QRS relationship">>,
                   <<"P waves march independently of QRS">> >>,
   action |-> "IMMEDIATE CARDIOLOGY CONSULTATION"]

CompleteHeartBlockDetection(atrialRate, ventricularRate) ==
  [type |-> "COMPLETE_HEART_BLOCK",
   confidence |-> ConfidenceComplete,
   urgency |-> "EMERGENT",
   evidence |-> << <<"Atrial rate: ", atrialRate, " bpm (P waves)">>,
                   <<"Ventricular rate: ", ventricularRate, " bpm (QRS)">>,
                   <<"No consistent P-QRS relationship">>,
                   <<"P waves march independently of QRS">> >>,
   action |-> "IMMEDIATE CARDIOLOGY CONSULTATION"]

detectCompleteHeartBlock(pWaves, qrsComplexes) ==
  IF pWaves.shape = "undefined" \/ qrsComplexes.shape = "undefined"
  THEN Throw("TypeError")
  ELSE
  LET atrialRate == calculateRate(pWaves)
      ventricularRate == calculateRate(qrsComplexes)
      rateDifference == AbsDiff(atrialRate, ventricularRate)
      dissociation == checkAVDissociation(pWaves, qrsComplexes)
      independentRhythms == assessIndependentRhythms(pWaves, qrsComplexes)
  IN  IF dissociation.threw THEN dissociation
      ELSE IF /\ Greater(rateDifference, CompleteBlockRateDiff)
              /\ dissociation.value
              /\ independentRhythms
      THEN Return(CompleteHeartBlockDetection(atrialRate, ventricularRate))
      ELSE Return(checkPartialBlocks(pWaves, qrsComplexes))

-----------------------------------------------------------------------------
(* MorphologyValidator *)
(* A component is [type, time, onset_slope, peak_sharpness, duration]; each  *)
(* of the three optional fields is {} when the component lacks it and {v}    *)
(* when it holds v.  Slopes and sharpness are in hundredths, durations in ms. *)

\* x || d: undefined and 0 are falsy
OrDefault(x, d) == IF x = {} \/ x = {0} THEN d ELSE CHOOSE v \in x : TRUE

hasSharpOnset(component) ==
  /\ OrDefault(component.onset_slope, DefaultOnsetSlope) > SharpOnsetSlope
  /\ OrDefault(component.duration, DefaultSharpDuration) < SharpOnsetDuration

isRoundedMorphology(component) ==
  /\ OrDefault(component.peak_sharpness, DefaultPeakSharpness) < RoundedPeakSharpness
  /\ OrDefault(component.duration, DefaultRoundedDuration) > RoundedDuration

\* what one pass of the loop body pushes on issues
IssuesOfComponent(component) ==
  IF component.type # "QRS" THEN <<>>
  ELSE (IF ~hasSharpOnset(component)
        THEN << <<"Component at ", component.time, "ms may be T wave, not QRS">> >>
        ELSE <<>>)
       \o
       (IF isRoundedMorphology(component)
        THEN << <<"Component at ", component.time,
                  "ms has rounded morphology typical of T wave">> >>
        ELSE <<>>)

\* what one pass of the loop body pushes on corrections
CorrectionsOfComponent(component) ==
  IF component.type = "QRS" /\ ~hasSharpOnset(component)
  THEN << [component |-> component,
           suggestion |-> "Reclassify as T wave",
           reason |-> "Gradual onset, not sharp QRS pattern"] >>
  ELSE <<>>

RECURSIVE IssuesOf(_)
IssuesOf(items) ==
  IF items = <<>> THEN <<>> ELSE IssuesOfComponent(Head(items)) \o IssuesOf(Tail(items))

RECURSIVE CorrectionsOf(_)
CorrectionsOf(items) ==
  IF items = <<>> THEN <<>>
  ELSE CorrectionsOfComponent(Head(items)) \o CorrectionsOf(Tail(items))

\* The confidence is a double.  A double d with 0 <= d < 8 that is a multiple
\* of 2^-53 is held as the integer d * 2^53 in two limbs, hi * 2^28 + lo.
LimbBase == 268435456

Double(hi, lo) == [hi |-> hi, lo |-> lo]

Zero == Double(0, 0)
ConfidenceNoComponents == Double(16777216, 0)     \* 0.5 = 2^52 * 2^-53
ScoreConsistent == Double(30198988, 214748365)    \* 0.9 = 8106479329266893 * 2^-53
ScoreOther == Double(20132659, 53687091)          \* 0.6 = 5404319552844595 * 2^-53

Carried(hi, lo) == IF lo >= LimbBase THEN Double(hi + 1, lo - LimbBase) ELSE Double(hi, lo)

\* the doubles in [2^(e-1), 2^e) are 2^(e-53) apart: 1, 2, 4, 8 units of 2^-53
Spacing(hi) ==
  IF hi < 33554432 THEN 1 ELSE IF hi < 67108864 THEN 2 ELSE IF hi < 134217728 THEN 4 ELSE 8

\* round to nearest multiple of q units, ties to the even multiple
RoundToSpacing(hi, lo, q) ==
  LET r == lo % q
      down == lo - r
      up == 2 * r > q \/ (2 * r = q /\ (down \div q) % 2 = 1)
  IN  Carried(hi, IF up THEN down + q ELSE down)

\* a + b
DoubleAdd(a, b) ==
  LET exact == Carried(a.hi + b.hi, a.lo + b.lo)
  IN  RoundToSpacing(exact.hi, exact.lo, Spacing(exact.hi))

\* a / n for an integer 1 <= n <= 8 and a quotient below 1
DoubleDiv(a, n) ==
  LET qh == a.hi \div n
      t == (a.hi % n) * LimbBase + a.lo
      ql == t \div n
      rem == t % n
      up == 2 * rem > n \/ (2 * rem = n /\ ql % 2 = 1)
  IN  Carried(qh, IF up THEN ql + 1 ELSE ql)

DoubleLeq(a, b) == a.hi < b.hi \/ (a.hi = b.hi /\ a.lo <= b.lo)

\* scores 0.9 whatever the kind of the component
ComponentScore_AnyKind(component) ==
  IF hasSharpOnset(component) \/ isRoundedMorphology(component)
  THEN ScoreConsistent ELSE ScoreOther

\* the amount one component adds to totalConfidence
ComponentScore(component) ==
  IF component.type = "QRS" /\ hasSharpOnset(component) THEN ScoreConsistent
  ELSE IF component.type = "T" /\ isRoundedMorphology(component) THEN ScoreConsistent
  ELSE ScoreOther

RECURSIVE TotalConfidence(_)
TotalConfidence(items) ==
  IF items = <<>> THEN Zero
  ELSE DoubleAdd(TotalConfidence(SubSeq(items, 1, Len(items) - 1)),
                 ComponentScore(items[Len(items)]))

calculateMorphologyConfidence(components) ==
  IF Len(components.items) = 0 THEN ConfidenceNoComponents
  ELSE DoubleDiv(TotalConfidence(components.items), Len(components.items))

validateQRSvsTWave(components) ==
  LET issues == IssuesOf(components.items)
      corrections == CorrectionsOf(components.items)
  IN  [isValid |-> Len(issues) = 0,
       issues |-> issues,
       corrections |-> corrections,
       confidence |-> calculateMorphologyConfidence(components)]

-----------------------------------------------------------------------------
(* CardiacComponentTracker *)

identifyPWavesByCriteria(a) == OrEmptyList(a.pWaves)

identifyQRSByCriteria(a) == OrEmptyList(a.qrsComplexes)

\* without the early return for fewer than 2 events
calculateAtrialRate_NoGuard(pWaves) == RateOfIntervals(Intervals(pWaves))

calculateAtrialRate(pWaves) ==
  IF Less(Length(pWaves), RateMinEvents) THEN Num(0)
  ELSE RateOfIntervals(Intervals(pWaves))

\* the mean taken over qrsComplexes.length instead of intervals.length
calculateVentricularRate_PerEvent(qrsComplexes) ==
  IF Less(Length(qrsComplexes), RateMinEvents) THEN Num(0)
  ELSE LET iv == Intervals(qrsComplexes)
       IN  IF iv.nan \/ Len(iv.d) = 0 THEN NaN
           ELSE RoundedRate(SumSeq(iv.d), Len(iv.d) + 1)

calculateVentricularRate(qrsComplexes) ==
  IF Less(Length(qrsComplexes), RateMinEvents) THEN Num(0)
  ELSE RateOfIntervals(Intervals(qrsComplexes))

\* with the detector's ratio in place of the tracker's
assessPWaveRegularity_Loose(pWaves) ==
  IF Less(Length(pWaves), RegularityMinEvents) THEN "irregular"
  ELSE IF VarianceBelow(Intervals(pWaves), RhythmVariancePct) THEN "regular"
  ELSE "irregular"

assessPWaveRegularity(pWaves) ==
  IF Less(Length(pWaves), RegularityMinEvents) THEN "irregular"
  ELSE IF VarianceBelow(Intervals(pWaves), PWaveVariancePct) THEN "regular"
  ELSE "irregular"

describePWaveMorphology(pWaves) == "Normal upright P waves in Lead II"

\* qrs.duration || 80: a duration of 0 is falsy
DurationOrDefault(q) == IF q.duration = 0 THEN DefaultQRSDuration ELSE q.duration

\* The mean width as the fraction sum / n (0 / 1 for no complexes).  Called
\* only on lists: trackQRSComplexes throws at .map for anything else.
measureQRSWidth(qrsComplexes) ==
  IF Len(qrsComplexes.items) = 0 THEN [sum |-> 0, n |-> 1]
  ELSE [sum |-> SumSeq([i \in 1..Len(qrsComplexes.items) |->
                          DurationOrDefault(qrsComplexes.items[i])]),
        n |-> Len(qrsComplexes.items)]

describeQRSMorphology(qrsComplexes) ==
  LET avgWidth == measureQRSWidth(qrsComplexes)
  IN  IF avgWidth.sum > WideQRSWidth * avgWidth.n
      THEN "Wide QRS complexes" ELSE "Normal narrow QRS complexes"

trackPWaves(a) ==
  LET pWaves == identifyPWavesByCriteria(a)
      pRate == calculateAtrialRate(pWaves)
  IN  IF pWaves.shape # "list" THEN Throw("TypeError")   \* pWaves.map is not a function
      ELSE Return([shape |-> "tracking",
                   count |-> Len(pWaves.items),
                   rate |-> pRate,
                   regularity |-> assessPWaveRegularity(pWaves),
                   morphology |-> describePWaveMorphology(pWaves),
                   locations |-> List([i \in 1..Len(pWaves.items) |->
                                   [time |-> pWaves.items[i].time,
                                    amplitude |-> pWaves.items[i].amplitude]])])

trackQRSComplexes(a) ==
  LET qrsComplexes == identifyQRSByCriteria(a)
      vRate == calculateVentricularRate(qrsComplexes)
  IN  IF qrsComplexes.shape # "list" THEN Throw("TypeError")   \* qrsComplexes.map
      ELSE Return([shape |-> "tracking",
                   count |-> Len(qrsComplexes.items),
                   rate |-> vRate,
                   width |-> measureQRSWidth(qrsComplexes),
                   morphology |-> describeQRSMorphology(qrsComplexes),
                   locations |-> List([i \in 1..Len(qrsComplexes.items) |->
                                   [time |-> qrsComplexes.items[i].time,
                                    amplitude |-> qrsComplexes.items[i].amplitude,
                                    duration |-> qrsComplexes.items[i].duration]])])

validateTWaves(a) ==
  LET validation == validateQRSvsTWave(OrEmptyList(a.components))
  IN  Return([validated |-> validation.isValid,
              qrsConfusions |-> [i \in 1..Len(validation.corrections) |->
                                   [location |-> validation.corrections[i].component.time,
                                    reason |-> validation.corrections[i].reason]],
              confidence |-> validation.confidence])

\* the second-degree result marked as dissociated
assessPartialBlocks_Dissociated(pWaves, qrsComplexes) ==
  LET rateDifference == AbsDiff(pWaves.rate, qrsComplexes.rate)
  IN  IF Greater(rateDifference, TrackerPartialRateDiff)
      THEN [type |-> "2ND_DEGREE",
            urgency |-> "URGENT",
            findings |-> << <<"Possible 2nd degree AV block - rate difference: ",
                              rateDifference, " bpm">> >>,
            avDissociation |-> TRUE,
            rateDifference |-> rateDifference]
      ELSE [type |-> "NORMAL",
            urgency |-> "ROUTINE",
            findings |-> << <<"Normal AV conduction">> >>,
            avDissociation |-> FALSE,
            rateDifference |-> rateDifference]

\* the tracker's partial-block rule with the complete-block threshold
assessPartialBlocks_Threshold20(pWaves, qrsComplexes) ==
  LET rateDifference == AbsDiff(pWaves.rate, qrsComplexes.rate)
  IN  IF Greater(rateDifference, CompleteBlockRateDiff)
      THEN [type |-> "2ND_DEGREE",
            urgency |-> "URGENT",
            findings |-> << <<"Possible 2nd degree AV block - rate difference: ",
                              rateDifference, " bpm">> >>,
            avDissociation |-> FALSE,
            rateDifference |-> rateDifference]
      ELSE [type |-> "NORMAL",
            urgency |-> "ROUTINE",
            findings |-> << <<"Normal AV conduction">> >>,
            avDissociation |-> FALSE,
            rateDifference |-> rateDifference]

assessPartialBlocks(pWaves, qrsComplexes) ==
  LET rateDifference == AbsDiff(pWaves.rate, qrsComplexes.rate)
  IN  IF Greater(rateDifference, TrackerPartialRateDiff)
      THEN [type |-> "2ND_DEGREE",
            urgency |-> "URGENT",
            findings |-> << <<"Possible 2nd degree AV block - rate difference: ",
                              rateDifference, " bpm">> >>,
            avDissociation |-> FALSE,
            rateDifference |-> rateDifference]
      ELSE [type |-> "NORMAL",
            urgency |-> "ROUTINE",
            findings |-> << <<"Normal AV conduction">> >>,
            avDissociation |-> FALSE,
            rateDifference |-> rateDifference]

assessAVRelationship(a) ==
  LET pWaves == a.pWaveTracking
      qrsComplexes == a.qrsTracking
  IN  IF pWaves.shape = "undefined" \/ qrsComplexes.shape = "undefined"
      THEN Throw("TypeError")   \* pWaves.locations of undefined
      ELSE
      LET blockDetection == detectCompleteHeartBlock(pWaves.locations, qrsComplexes.locations)
          rateDifference == AbsDiff(pWaves.rate, qrsComplexes.rate)
      IN  IF blockDetection.threw THEN blockDetection
          ELSE IF blockDetection.value.type = "COMPLETE_HEART_BLOCK"
          THEN Return([type |-> "COMPLETE_HEART_BLOCK",
                       urgency |-> "EMERGENT",
                       findings |-> << <<"Atrial rate: ", pWaves.rate, " bpm">>,
                                       <<"Ventricular rate: ", qrsComplexes.rate, " bpm">>,
                                       <<"AV dissociation confirmed">>,
                                       <<"COMPLETE HEART BLOCK DETECTED">> >>,
                       avDissociation |-> TRUE,
                       rateDifference |-> rateDifference])
          ELSE Return(assessPartialBlocks(pWaves, qrsComplexes))

\* The four awaits run in order; the first one that throws rejects the promise.
trackAllComponents(a) ==
  LET p == trackPWaves(a)
      q == trackQRSComplexes(a)
      t == validateTWaves(a)
      av == assessAVRelationship(a)
  IN  CASE p.threw -> p
        [] q.threw -> q
        [] t.threw -> t
        [] av.threw -> av
        [] OTHER -> Return([pWaveTracking |-> p.value,
                            qrsTracking |-> q.value,
                            tWaveValidation |-> t.value,
                            avRelationship |-> av.value])

-----------------------------------------------------------------------------
(* MemStorage *)

\* null, as a value that compares with any record
Null == [shape |-> "null"]

\* defaultPools, in the order createAgentPool numbers them from 1
DefaultPools ==
  << [id |-> 1, name |-> "Healthcare", type |-> "healthcare",
      capacity |-> 5, activeAgents |-> 5, status |-> "online"],
     [id |-> 2, name |-> "Financial", type |-> "financial",
      capacity |-> 8, activeAgents |-> 8, status |-> "online"],
     [id |-> 3, name |-> "Business Auto", type |-> "business_automation",
      capacity |-> 3, activeAgents |-> 3, status |-> "online"],
     [id |-> 4, name |-> "Sports Analytics", type |-> "sports_analytics",
      capacity |-> 4, activeAgents |-> 4, status |-> "scaling"] >>

\* insertLog.metadata || null, null being a record without fields
NoMetadata == <<>>

\* the four logs the constructor writes
DefaultLogs ==
  << [type |-> "system", message |-> <<"Healthcare agent pool scaled up">>,
      metadata |-> NoMetadata],
     [type |-> "task", message |-> <<"Financial analysis task completed">>,
      metadata |-> NoMetadata],
     [type |-> "conversation", message |-> <<"New conversation started">>,
      metadata |-> NoMetadata],
     [type |-> "system", message |-> <<"System backup completed">>,
      metadata |-> NoMetadata] >>

\* { ...r, ...updates }
Merged(r, updates) ==
  [f \in DOMAIN r \cup DOMAIN updates |-> IF f \in DOMAIN updates THEN updates[f] ELSE r[f]]

\* a Map with key k set to v
MapSet(map, k, v) == [x \in DOMAIN map \cup {k} |-> IF x = k THEN v ELSE map[x]]

\* Array.from(this.agentPools.values()): the pools in order of insertion
getAllAgentPools == agentPools

getAgentPool(id) == IF id \in DOMAIN agentPools THEN agentPools[id] ELSE Undefined

\* the value of this.agentPools after updateAgentPool(id, updates)
updateAgentPool(id, updates) ==
  IF id \notin DOMAIN agentPools THEN agentPools
  ELSE [agentPools EXCEPT ![id] = Merged(@, updates)]

\* the value of this.tasks after createTask(task): the id counter is put on it
createTask(task) ==
  MapSet(tasks, task.taskId, Merged(task, [id |-> currentTaskId, output |-> Null]))

\* the value of this.tasks after updateTask(taskId, updates)
updateTask(taskId, updates) ==
  IF taskId \notin DOMAIN tasks THEN tasks
  ELSE [tasks EXCEPT ![taskId] = Merged(@, updates)]

\* the value of this.activityLogs after createActivityLog(log)
createActivityLog(log) == Append(activityLogs, log)

-----------------------------------------------------------------------------
(* AgentOrchestrationService *)

typeMapping ==
  [t \in {"medical_analysis", "health_consultation", "stock_analysis", "investment_advice",
          "workflow_automation", "project_management", "sports_betting", "game_analysis"} |->
     CASE t \in {"medical_analysis", "health_consultation"} -> "healthcare"
       [] t \in {"stock_analysis", "investment_advice"} -> "financial"
       [] t \in {"workflow_automation", "project_management"} -> "business_automation"
       [] t \in {"sports_betting", "game_analysis"} -> "sports_analytics"]

\* pools.find(...) || null: the first pool of the required type that is online
\* with an active agent
findSuitableAgentPool(taskType, pools) ==
  IF taskType \notin DOMAIN typeMapping THEN Null
  ELSE LET suitable == {i \in DOMAIN pools : /\ pools[i].type = typeMapping[taskType]
                                             /\ pools[i].status = "online"
                                             /\ pools[i].activeAgents > 0}
       IN  IF suitable = {} THEN Null
           ELSE pools[CHOOSE i \in suitable : \A j \in suitable : i <= j]

\* the storage and the service as their constructors leave them, no callback
\* pending
Constructed ==
  /\ agentPools = DefaultPools
  /\ tasks = <<>>
  /\ activityLogs = DefaultLogs
  /\ currentTaskId = 1
  /\ taskQueue = <<>>
  /\ processingTasks = {}
  /\ timers = <<>>
  /\ aiCalls = <<>>

-----------------------------------------------------------------------------
(* The analysis objects the calls are made on *)

PStarts == {0}
QRSStarts == {0, 160}
PSteps == {857, 1000, 0, -857}
QRSSteps == {857, 1200, 1500, 0, -857}
Delays == {0, 40}
StatedRates == {Num(100)}

PEvent(t) == [time |-> t, amplitude |-> 15, duration |-> 80]
QRSEvent(t) == [time |-> t, amplitude |-> 120, duration |-> 90]

\* n times from start, step apart, the last one late by delay
Times(start, step, n, delay) ==
  [i \in 1..n |-> start + (i - 1) * step + (IF i = n /\ n >= 2 THEN delay ELSE 0)]

PTimeLists ==
  {Times(s, st, n, d) : s \in PStarts, st \in PSteps, n \in 0..MaxLen, d \in Delays}

QRSTimeLists ==
  {Times(s, st, n, d) : s \in QRSStarts, st \in QRSSteps, n \in 0..MaxLen, d \in Delays}

NotLists == {Undefined, NumberValue, StringValue, ObjectValue}

PValues == {List([i \in 1..Len(ts) |-> PEvent(ts[i])]) : ts \in PTimeLists} \cup NotLists
QRSValues == {List([i \in 1..Len(ts) |-> QRSEvent(ts[i])]) : ts \in QRSTimeLists} \cup NotLists

Init ==
  /\ analysis \in [pWaves : PValues, qrsComplexes : QRSValues,
                   pWaveTracking : {Undefined}, qrsTracking : {Undefined},
                   components : {Undefined}]
  /\ call = "none"
  /\ ret = Return("none")
  /\ Constructed

\* A caller puts the tracker's profiles of the two lists on the analysis object,
\* the atrial one with the rate the tracker computed or with another stated rate.
AttachTracking ==
  /\ analysis.pWaveTracking = Undefined
  /\ LET p == trackPWaves(analysis)
         q == trackQRSComplexes(analysis)
     IN  /\ ~p.threw /\ ~q.threw
         /\ \E pr \in {p.value.rate} \cup StatedRates :
              analysis' = [analysis EXCEPT !.pWaveTracking = [p.value EXCEPT !.rate = pr],
                                           !.qrsTracking = q.value]
  /\ call' = "attach"
  /\ ret' = Return("none")
  /\ UNCHANGED orchestration

\* a detector that takes the events off the lists it is given
Detect_Consuming ==
  /\ call' = "detectCompleteHeartBlock"
  /\ ret' = detectCompleteHeartBlock(analysis.pWaves, analysis.qrsComplexes)
  /\ analysis' = [analysis EXCEPT !.pWaves = IF @.shape = "list" THEN List(<<>>) ELSE @]
  /\ UNCHANGED orchestration

Detect ==
  /\ call' = "detectCompleteHeartBlock"
  /\ ret' = detectCompleteHeartBlock(analysis.pWaves, analysis.qrsComplexes)
  /\ UNCHANGED <<analysis, orchestration>>

Assess ==
  /\ call' = "assessAVRelationship"
  /\ ret' = assessAVRelationship(analysis)
  /\ UNCHANGED <<analysis, orchestration>>

TrackAll ==
  /\ call' = "trackAllComponents"
  /\ ret' = trackAllComponents(analysis)
  /\ UNCHANGED <<analysis, orchestration>>

Next == AttachTracking \/ Detect \/ Assess \/ TrackAll

Spec == Init /\ [][Next]_vars

-----------------------------------------------------------------------------
(* One detector called on one pair of lists after another: P events 857 ms   *)
(* apart (70 per minute) against QRS events at rates 70, 65, 60, 59, 50, 49  *)
(* and 40 per minute, in step with the P events or not, regular or not.      *)

UrgencyQRSStarts == {0, 160}
UrgencyQRSSteps == {857, 923, 1000, 1017, 1200, 1224, 1500}

UrgencyPValues ==
  {List([i \in 1..n |-> PEvent(Times(0, 857, n, 0)[i])]) : n \in 3..MaxLen}

UrgencyQRSValues ==
  {List([i \in 1..n |-> QRSEvent(Times(s, st, n, d)[i])]) :
     s \in UrgencyQRSStarts, st \in UrgencyQRSSteps, n \in 3..MaxLen, d \in Delays}

InitUrgency ==
  /\ analysis \in [pWaves : UrgencyPValues, qrsComplexes : UrgencyQRSValues,
                   pWaveTracking : {Undefined}, qrsTracking : {Undefined},
                   components : {Undefined}]
  /\ call = "none"
  /\ ret = Return("none")
  /\ Constructed

\* the same detector given another pair of lists
DetectAnother ==
  /\ \E p \in UrgencyPValues, q \in UrgencyQRSValues :
        /\ analysis' = [analysis EXCEPT !.pWaves = p, !.qrsComplexes = q]
        /\ ret' = detectCompleteHeartBlock(p, q)
  /\ call' = "detectCompleteHeartBlock"
  /\ UNCHANGED orchestration

NextUrgency == Detect \/ DetectAnother

SpecUrgency == InitUrgency /\ [][NextUrgency]_vars

-----------------------------------------------------------------------------
(* Index pairing: lists of up to MaxPairs pairs, the first k of them with a  *)
(* PR interval inside the window and the others with one outside it, and up  *)
(* to one further event on either list.                                      *)

InsidePR == {121, 160, 299}
OutsidePR == {0, 120, 300}

PairedP(n, extra) == List([i \in 1..(n + extra) |-> PEvent((i - 1) * 1000)])

PairedQRS(n, k, inside, outside, extra) ==
  List([i \in 1..(n + extra) |->
          QRSEvent((i - 1) * 1000 + (IF i <= k \/ i > n THEN inside ELSE outside))])

InitPairs ==
  /\ \E n \in 0..MaxPairs, k \in 0..MaxPairs, inside \in InsidePR, outside \in OutsidePR,
        extraP \in 0..1, extraQRS \in 0..1 :
        /\ k <= n
        /\ analysis = [pWaves |-> PairedP(n, extraP),
                       qrsComplexes |-> PairedQRS(n, k, inside, outside, extraQRS),
                       pWaveTracking |-> Undefined, qrsTracking |-> Undefined,
                       components |-> Undefined]
  /\ call = "none"
  /\ ret = Return("none")
  /\ Constructed

CheckAVDissociation ==
  /\ call' = "checkAVDissociation"
  /\ ret' = checkAVDissociation(analysis.pWaves, analysis.qrsComplexes)
  /\ UNCHANGED <<analysis, orchestration>>

NextPairs == CheckAVDissociation \/ Detect

SpecPairs == InitPairs /\ [][NextPairs]_vars

-----------------------------------------------------------------------------
(* One series: every ordering of up to MaxSeries events, evenly spaced or    *)
(* with the last one late, given to the rate and regularity methods.         *)

SeriesStarts == {0, 160}
SeriesSteps == {0, 7, 857, 960, 1500}
SeriesDelays == {0, 20, 40}

Orderings(n) == {f \in [1..n -> 1..n] : \A i, j \in 1..n : f[i] = f[j] => i = j}

SeriesTimeLists ==
  UNION {{[i \in 1..n |-> Times(s, st, n, d)[f[i]]] : f \in Orderings(n)} :
           s \in SeriesStarts, st \in SeriesSteps, n \in 0..MaxSeries, d \in SeriesDelays}

SeriesValues == {List([i \in 1..Len(ts) |-> QRSEvent(ts[i])]) : ts \in SeriesTimeLists}

InitSeries ==
  /\ \E series \in SeriesValues :
        analysis = [pWaves |-> series, qrsComplexes |-> series,
                    pWaveTracking |-> Undefined, qrsTracking |-> Undefined,
                    components |-> Undefined]
  /\ call = "none"
  /\ ret = Return("none")
  /\ Constructed

TrackPWaves ==
  /\ call' = "trackPWaves"
  /\ ret' = trackPWaves(analysis)
  /\ UNCHANGED <<analysis, orchestration>>

TrackQRSComplexes ==
  /\ call' = "trackQRSComplexes"
  /\ ret' = trackQRSComplexes(analysis)
  /\ UNCHANGED <<analysis, orchestration>>

CalculateRate ==
  /\ call' = "calculateRate"
  /\ ret' = Return(calculateRate(analysis.pWaves))
  /\ UNCHANGED <<analysis, orchestration>>

AssessRhythmRegularity ==
  /\ call' = "assessRhythmRegularity"
  /\ ret' = Return(assessRhythmRegularity(analysis.pWaves))
  /\ UNCHANGED <<analysis, orchestration>>

NextSeries == TrackPWaves \/ TrackQRSComplexes \/ CalculateRate \/ AssessRhythmRegularity

SpecSeries == InitSeries /\ [][NextSeries]_vars

-----------------------------------------------------------------------------
(* Components: every single component over the field values below, and every *)
(* list of 2 to MaxComponents components from a palette of three.            *)

OnsetSlopes == {{}, {0}, {20}, {50}, {60}}
PeakSharpnesses == {{}, {0}, {10}, {30}}
Durations == {{}, {0}, {90}, {120}, {150}, {180}}

Components ==
  [type : {"P", "QRS", "T"}, time : {400}, onset_slope : OnsetSlopes,
   peak_sharpness : PeakSharpnesses, duration : Durations]

Palette ==
  {[type |-> "QRS", time |-> 180, onset_slope |-> {60}, peak_sharpness |-> {80}, duration |-> {90}],
   [type |-> "QRS", time |-> 500, onset_slope |-> {20}, peak_sharpness |-> {10}, duration |-> {180}],
   [type |-> "T", time |-> 520, onset_slope |-> {}, peak_sharpness |-> {10}, duration |-> {180}]}

ComponentLists ==
  {<<>>} \cup {<<c>> : c \in Components}
         \cup UNION {[1..n -> Palette] : n \in 2..MaxComponents}

InitComponents ==
  /\ \E items \in ComponentLists :
        analysis = [pWaves |-> Undefined, qrsComplexes |-> Undefined,
                    pWaveTracking |-> Undefined, qrsTracking |-> Undefined,
                    components |-> List(items)]
  /\ call = "none"
  /\ ret = Return("none")
  /\ Constructed

ValidateQRSvsTWave ==
  /\ call' = "validateQRSvsTWave"
  /\ ret' = Return(validateQRSvsTWave(analysis.components))
  /\ UNCHANGED <<analysis, orchestration>>

ValidateTWaves ==
  /\ call' = "validateTWaves"
  /\ ret' = validateTWaves(analysis)
  /\ UNCHANGED <<analysis, orchestration>>

NextComponents == ValidateQRSvsTWave \/ ValidateTWaves

SpecComponents == InitComponents /\ [][NextComponents]_vars

-----------------------------------------------------------------------------
(* Predicates the properties below are stated on *)

IsList(x) == x.shape = "list"

Detected == call = "detectCompleteHeartBlock"
DetectedOnLists == Detected /\ IsList(analysis.pWaves) /\ IsList(analysis.qrsComplexes)

\* assessAVRelationship was called on an object carrying both profiles
Assessed == call = "assessAVRelationship" /\ analysis.pWaveTracking # Undefined
PLocations == analysis.pWaveTracking.locations
QRSLocations == analysis.qrsTracking.locations

\* the profiles on the object are the ones the tracker computes from its lists
ComputedProfiles ==
  /\ analysis.pWaveTracking = trackPWaves(analysis).value
  /\ analysis.qrsTracking = trackQRSComplexes(analysis).value

\* trackAllComponents was called on an object carrying raw lists only
TrackedRaw == call = "trackAllComponents" /\ analysis.pWaveTracking = Undefined

HasConfidence(r, c) == "confidence" \in DOMAIN r /\ r.confidence = c

Exceeds(rd, n) == rd.k = "inf" \/ (rd.k = "num" /\ rd.v > n)

RateDiffOf(p, q) == AbsDiff(calculateRate(p), calculateRate(q))

EvenlySpaced(x, step) ==
  /\ IsList(x)
  /\ \A i \in 1..(Len(x.items) - 1) : x.items[i + 1].time - x.items[i].time = step

PairCount(p, q) == IF Len(p.items) <= Len(q.items) THEN Len(p.items) ELSE Len(q.items)

OutsideWindow(p, q) ==
  {i \in 1..PairCount(p, q) :
     ~(q.items[i].time - p.items[i].time > 120 /\ q.items[i].time - p.items[i].time < 300)}

-----------------------------------------------------------------------------
\* C1: for every pair of event lists, detectCompleteHeartBlock returns
\* COMPLETE_HEART_BLOCK (EMERGENT, 0.95) exactly when rateDiff > 20 and
\* dissociation and independent rhythms all hold; otherwise SECOND_DEGREE_BLOCK
\* (URGENT, 0.80) exactly when rateDiff > 10; otherwise NO_BLOCK (ROUTINE, 0.90).
\* Both comparisons are strict.
C1_ThreeWayClassification ==
  DetectedOnLists =>
    LET p == analysis.pWaves
        q == analysis.qrsComplexes
        rateDiff == RateDiffOf(p, q)
        complete == /\ Exceeds(rateDiff, 20)
                    /\ checkAVDissociation(p, q).value
                    /\ assessIndependentRhythms(p, q)
    IN  /\ ~ret.threw
        /\ IF complete
           THEN /\ ret.value.type = "COMPLETE_HEART_BLOCK"
                /\ ret.value.urgency = "EMERGENT"
                /\ ret.value.confidence = 95
           ELSE IF Exceeds(rateDiff, 10)
           THEN /\ ret.value.type = "SECOND_DEGREE_BLOCK"
                /\ ret.value.urgency = "URGENT"
                /\ ret.value.confidence = 80
           ELSE /\ ret.value.type = "NO_BLOCK"
                /\ ret.value.urgency = "ROUTINE"
                /\ ret.value.confidence = 90
        /\ rateDiff = Num(20) => ret.value.type # "COMPLETE_HEART_BLOCK"
        /\ rateDiff = Num(10) => ret.value.type = "NO_BLOCK"

\* a rate difference of exactly 20 with dissociation and independent rhythms
C1_Witness ==
  /\ DetectedOnLists
  /\ RateDiffOf(analysis.pWaves, analysis.qrsComplexes) = Num(20)
  /\ checkAVDissociation(analysis.pWaves, analysis.qrsComplexes).value
  /\ assessIndependentRhythms(analysis.pWaves, analysis.qrsComplexes)
  /\ ret.value.type = "SECOND_DEGREE_BLOCK"

-----------------------------------------------------------------------------
\* Scenario B: P events 857 ms apart, QRS events 1500 ms apart, at least 3 of
\* each, at least 30% of the index pairs outside the PR window
ScenarioB(p, q) ==
  /\ EvenlySpaced(p, 857) /\ Len(p.items) >= 3
  /\ EvenlySpaced(q, 1500) /\ Len(q.items) >= 3
  /\ Cardinality(OutsideWindow(p, q)) * 100 >= 30 * PairCount(p, q)

\* C2 (as amended): in scenario B detectCompleteHeartBlock returns
\* COMPLETE_HEART_BLOCK, EMERGENT, confidence 0.95, and assessAVRelationship
\* returns COMPLETE_HEART_BLOCK, EMERGENT, avDissociation = true (its result
\* has no confidence field).
C2_ScenarioBCompleteBlock ==
  /\ (Detected /\ ScenarioB(analysis.pWaves, analysis.qrsComplexes)) =>
       /\ ~ret.threw
       /\ ret.value.type = "COMPLETE_HEART_BLOCK"
       /\ ret.value.urgency = "EMERGENT"
       /\ HasConfidence(ret.value, 95)
  /\ (Assessed /\ ScenarioB(PLocations, QRSLocations)) =>
       /\ ~ret.threw
       /\ ret.value.type = "COMPLETE_HEART_BLOCK"
       /\ ret.value.urgency = "EMERGENT"
       /\ ret.value.avDissociation

\* C2 as stated: confidence 0.95 from assessAVRelationship too
C2_AsStated ==
  /\ (Detected /\ ScenarioB(analysis.pWaves, analysis.qrsComplexes)) =>
       /\ ~ret.threw
       /\ ret.value.type = "COMPLETE_HEART_BLOCK"
       /\ ret.value.urgency = "EMERGENT"
       /\ HasConfidence(ret.value, 95)
  /\ (Assessed /\ ScenarioB(PLocations, QRSLocations)) =>
       /\ ~ret.threw
       /\ ret.value.type = "COMPLETE_HEART_BLOCK"
       /\ ret.value.urgency = "EMERGENT"
       /\ HasConfidence(ret.value, 95)
       /\ ret.value.avDissociation

C2_Witness ==
  /\ Assessed
  /\ ScenarioB(PLocations, QRSLocations)
  /\ Len(PLocations.items) # Len(QRSLocations.items)
  /\ ret.value.type = "COMPLETE_HEART_BLOCK"

-----------------------------------------------------------------------------
\* C3: in every result of detectCompleteHeartBlock and of assessAVRelationship,
\* type COMPLETE_HEART_BLOCK implies urgency EMERGENT.
C3_CompleteBlockIsEmergent ==
  ((Detected \/ call = "assessAVRelationship") /\ ~ret.threw) =>
     (ret.value.type = "COMPLETE_HEART_BLOCK" => ret.value.urgency = "EMERGENT")

C3_Witness ==
  /\ Detected
  /\ ~ret.threw
  /\ ret.value.type = "COMPLETE_HEART_BLOCK"

-----------------------------------------------------------------------------
FewEvents(x) == IsList(x) /\ Len(x.items) < 2

\* C4: when the P list or the QRS list has fewer than 2 events, the result is
\* never COMPLETE_HEART_BLOCK and never EMERGENT, whatever the other list holds.
C4_FewEventsNeverComplete ==
  /\ (DetectedOnLists /\ (FewEvents(analysis.pWaves) \/ FewEvents(analysis.qrsComplexes))) =>
       /\ ~ret.threw
       /\ ret.value.type # "COMPLETE_HEART_BLOCK"
       /\ ret.value.urgency # "EMERGENT"
  /\ (Assessed /\ (FewEvents(PLocations) \/ FewEvents(QRSLocations))) =>
       /\ ~ret.threw
       /\ ret.value.type # "COMPLETE_HEART_BLOCK"
       /\ ret.value.urgency # "EMERGENT"

\* one P event against a regular QRS rhythm it is dissociated from
C4_Witness ==
  /\ DetectedOnLists
  /\ Len(analysis.pWaves.items) = 1
  /\ assessRhythmRegularity(analysis.qrsComplexes)
  /\ checkAVDissociation(analysis.pWaves, analysis.qrsComplexes).value
  /\ Exceeds(RateDiffOf(analysis.pWaves, analysis.qrsComplexes), 20)
  /\ ret.value.urgency = "URGENT"

-----------------------------------------------------------------------------
HasNote(lines, note) == \E i \in 1..Len(lines) : lines[i][1] = note

\* C5: when both lists are empty the assessment is NORMAL with confidence 0.5
\* and its evidence holds an "insufficient data" note.
C5_EmptyListsInsufficientData ==
  /\ (Detected /\ analysis.pWaves = List(<<>>) /\ analysis.qrsComplexes = List(<<>>)) =>
       /\ ~ret.threw
       /\ ret.value.type = "NO_BLOCK"
       /\ HasConfidence(ret.value, 50)
       /\ HasNote(ret.value.evidence, "insufficient data")
  /\ (Assessed /\ PLocations = List(<<>>) /\ QRSLocations = List(<<>>)) =>
       /\ ~ret.threw
       /\ ret.value.type = "NORMAL"
       /\ HasConfidence(ret.value, 50)
       /\ HasNote(ret.value.findings, "insufficient data")

-----------------------------------------------------------------------------
\* equal rates and one PR interval, strictly inside the window, for every pair
ScenarioA(p, q) ==
  /\ IsList(p) /\ IsList(q)
  /\ PairCount(p, q) >= 1
  /\ calculateRate(p) = calculateRate(q)
  /\ \E pr \in 121..299 :
       \A i \in 1..PairCount(p, q) : q.items[i].time - p.items[i].time = pr

\* C6: for lists of equal rate whose index-paired PR intervals are all the same
\* value strictly between 120 and 300 ms, the assessment is NORMAL, ROUTINE,
\* avDissociation = false (the detector's normal result is NO_BLOCK, ROUTINE).
C6_ScenarioANormal ==
  /\ (Detected /\ ScenarioA(analysis.pWaves, analysis.qrsComplexes)) =>
       /\ ~ret.threw
       /\ ret.value.type = "NO_BLOCK"
       /\ ret.value.urgency = "ROUTINE"
  /\ (Assessed /\ ComputedProfiles /\ ScenarioA(PLocations, QRSLocations)) =>
       /\ ~ret.threw
       /\ ret.value.type = "NORMAL"
       /\ ret.value.urgency = "ROUTINE"
       /\ ret.value.avDissociation = FALSE

\* P at 0, 857, 1714, 2571 and QRS at 160, 1017, 1874, 2731
C6_Witness ==
  /\ Assessed /\ ComputedProfiles
  /\ EvenlySpaced(PLocations, 857) /\ Len(PLocations.items) = 4
  /\ EvenlySpaced(QRSLocations, 857) /\ Len(QRSLocations.items) = 4
  /\ PLocations.items[1].time = 0 /\ QRSLocations.items[1].time = 160
  /\ ret.value.type = "NORMAL"

-----------------------------------------------------------------------------
\* C7: trackAllComponents on an object carrying only the raw lists returns a
\* complete ComponentAnalysis whose avRelationship classifies the events of its
\* own pWaveTracking.locations and qrsTracking.locations.
C7_TrackAllClassifiesRawLists ==
  (TrackedRaw /\ IsList(analysis.pWaves) /\ IsList(analysis.qrsComplexes)) =>
     /\ ~ret.threw
     /\ Return(ret.value.avRelationship) =
          assessAVRelationship([pWaveTracking |-> ret.value.pWaveTracking,
                                qrsTracking |-> ret.value.qrsTracking])

-----------------------------------------------------------------------------
WithMissingAsEmpty(a) ==
  [a EXCEPT !.pWaves = OrEmptyList(a.pWaves), !.qrsComplexes = OrEmptyList(a.qrsComplexes)]

\* C8: trackAllComponents on an input lacking pWaves, qrsComplexes or both
\* completes without error, with the result it gives when the missing keys
\* hold an empty list.
C8_MissingKeyAsEmptyList ==
  (/\ TrackedRaw
   /\ analysis.pWaves = Undefined \/ analysis.qrsComplexes = Undefined
   /\ IsList(OrEmptyList(analysis.pWaves)) /\ IsList(OrEmptyList(analysis.qrsComplexes))) =>
     /\ ~ret.threw
     /\ ret = trackAllComponents(WithMissingAsEmpty(analysis))

-----------------------------------------------------------------------------
\* C9: detectCompleteHeartBlock returns a BlockDetection and never throws for
\* every pair of event lists: empty, single-event, of unequal length, of rate 0.
C9_DetectorNeverThrows ==
  DetectedOnLists =>
    /\ ~ret.threw
    /\ ret.value.type \in {"COMPLETE_HEART_BLOCK", "SECOND_DEGREE_BLOCK", "NO_BLOCK"}
    /\ DOMAIN ret.value = {"type", "confidence", "urgency", "evidence", "action"}

\* lists of unequal length, the shorter of rate 0
C9_Witness ==
  /\ DetectedOnLists
  /\ Len(analysis.pWaves.items) = 1
  /\ Len(analysis.qrsComplexes.items) = 3
  /\ calculateRate(analysis.pWaves) = Num(0)
  /\ ~ret.threw

-----------------------------------------------------------------------------
\* present, but neither a list nor absent
NotAList(x) == x.shape \in {"number", "string", "object"}

\* C10: a pWaves or qrsComplexes value that is present but is not a list makes
\* the engine raise an error (InvalidInputShape) and produce no classification;
\* every other input yields a result.  Stated here on the weaker reading that
\* some error is raised, whatever its name, and, for the second half, on the
\* detector alone.
C10_OnlyNonListIsAnError ==
  /\ (/\ Detected \/ TrackedRaw
      /\ NotAList(analysis.pWaves) \/ NotAList(analysis.qrsComplexes)
      /\ Detected => (analysis.pWaves # Undefined /\ analysis.qrsComplexes # Undefined)) =>
        ret.threw
  /\ DetectedOnLists => ~ret.threw

-----------------------------------------------------------------------------
(* The dissociation verdict *)

CheckedDissociation == call = "checkAVDissociation"

\* the pairs of P and QRS events at the same index whose PR interval lies
\* strictly between 120 and 300 ms
WithinWindow(p, q) ==
  {i \in 1..PairCount(p, q) :
     q.items[i].time - p.items[i].time > 120 /\ q.items[i].time - p.items[i].time < 300}

\* C11: the verdict pairs the events by index up to the shorter list, counts
\* a pair consistent iff 120 < PR < 300, and is true iff fewer than 70% of the
\* pairs are consistent; events beyond the shorter list do not affect it.
C11_DissociationVerdict ==
  CheckedDissociation =>
    LET p == analysis.pWaves
        q == analysis.qrsComplexes
        m == PairCount(p, q)
    IN  /\ ~ret.threw
        /\ m = 0 => ~ret.value
        /\ m > 0 => (ret.value <=> Cardinality(WithinWindow(p, q)) * 100 < 70 * m)
        /\ ret = checkAVDissociation(List(SubSeq(p.items, 1, m)), List(SubSeq(q.items, 1, m)))

\* ten pairs of which exactly seven are consistent and three have a PR interval
\* on a bound of the window, with a further QRS event: not dissociation
C11_Witness ==
  /\ CheckedDissociation
  /\ PairCount(analysis.pWaves, analysis.qrsComplexes) = 10
  /\ Len(analysis.qrsComplexes.items) = 11
  /\ Cardinality(WithinWindow(analysis.pWaves, analysis.qrsComplexes)) = 7
  /\ analysis.qrsComplexes.items[10].time - analysis.pWaves.items[10].time = 120
  /\ ret = Return(FALSE)

-----------------------------------------------------------------------------
(* Evidence *)

\* some line of the form <<text, value, text>> carries the value x
Mentions(lines, x) == \E i \in 1..Len(lines) : Len(lines[i]) = 3 /\ lines[i][2] = x

\* C12: for every classification outcome the evidence of the assessment
\* includes the computed atrial rate and the computed ventricular rate (the
\* verdict line, which the property also asks for, is left out of this formula).
C12_EvidenceCarriesRates ==
  /\ (DetectedOnLists /\ ~ret.threw) =>
        /\ Mentions(ret.value.evidence, calculateRate(analysis.pWaves))
        /\ Mentions(ret.value.evidence, calculateRate(analysis.qrsComplexes))
  /\ (Assessed /\ ~ret.threw) =>
        /\ Mentions(ret.value.findings, analysis.pWaveTracking.rate)
        /\ Mentions(ret.value.findings, analysis.qrsTracking.rate)

-----------------------------------------------------------------------------
(* Rate and regularity of one series *)

Series == analysis.pWaves
SeriesLen == Len(Series.items)
TimeOf(i) == Series.items[i].time

TrackedP == call = "trackPWaves"
TrackedQRS == call = "trackQRSComplexes"
Rated == call = "calculateRate"
AssessedRegularity == call = "assessRhythmRegularity"

\* round(60000 / I) for an integer I > 0, halves rounded up
RoundPerMinute(I) == (120000 + I) \div (2 * I)

\* C13: for a series of at least 2 events evenly spaced by I > 0 ms and given
\* in time order, the atrial rate, the ventricular rate and the detector's
\* rate all equal round(60000 / I).
C13_EvenSeriesRate ==
  (SeriesLen >= 2 /\ TimeOf(2) > TimeOf(1) /\ EvenlySpaced(Series, TimeOf(2) - TimeOf(1))) =>
    LET expected == Num(RoundPerMinute(TimeOf(2) - TimeOf(1)))
    IN  /\ (TrackedP \/ TrackedQRS) => (~ret.threw /\ ret.value.rate = expected)
        /\ Rated => ret = Return(expected)

\* three events 960 ms apart: 62.5 per minute, rounded to 63
C13_Witness ==
  /\ TrackedQRS
  /\ SeriesLen = 3
  /\ EvenlySpaced(Series, 960)
  /\ ret.value.rate = Num(63)

\* C14: a series of length 0 or 1 yields count = length, rate 0 and
\* regularity irregular, is not a regular rhythm for the detector, and nothing
\* throws.
C14_ShortSeries ==
  SeriesLen <= 1 =>
    /\ ~ret.threw
    /\ (TrackedP \/ TrackedQRS) => (ret.value.count = SeriesLen /\ ret.value.rate = Num(0))
    /\ TrackedP => ret.value.regularity = "irregular"
    /\ Rated => ret.value = Num(0)
    /\ AssessedRegularity => ret.value = FALSE

C14_Witness ==
  /\ TrackedP
  /\ SeriesLen = 1
  /\ ret.value.count = 1
  /\ ret.value.rate = Num(0)
  /\ ret.value.regularity = "irregular"

\* the events of x in order of time
SortedByTime(x) ==
  LET n == Len(x.items)
      f == CHOOSE g \in Orderings(n) :
             \A i, j \in 1..n : i < j => x.items[g[i]].time <= x.items[g[j]].time
  IN  List([i \in 1..n |-> x.items[f[i]]])

\* C15: the rate and the regularity of a series are those of the series
\* sorted by time, in whatever order its events are supplied.
C15_OrderIndependent ==
  LET sorted == SortedByTime(Series)
  IN  /\ Rated => ret = Return(calculateRate(sorted))
      /\ AssessedRegularity => ret = Return(assessRhythmRegularity(sorted))
      /\ TrackedP => /\ ret.value.rate = calculateAtrialRate(sorted)
                     /\ ret.value.regularity = assessPWaveRegularity(sorted)
      /\ TrackedQRS => ret.value.rate = calculateVentricularRate(sorted)

\* C16: the rate is a non-negative integer for every series, whatever the
\* order of its events and also when events share a time value.
C16_RateNonNegative ==
  /\ Rated => (ret.value.k = "num" /\ ret.value.v >= 0)
  /\ (TrackedP \/ TrackedQRS) => (ret.value.rate.k = "num" /\ ret.value.rate.v >= 0)

\* the consecutive intervals of the series as supplied
Gap(i) == TimeOf(i + 1) - TimeOf(i)
RECURSIVE GapSum(_)
GapSum(n) == IF n = 0 THEN 0 ELSE Gap(n) + GapSum(n - 1)
RECURSIVE Spread(_, _)
Spread(n, k) ==
  IF k = 0 THEN 0
  ELSE (n * Gap(k) - GapSum(n)) * (n * Gap(k) - GapSum(n)) + Spread(n, k - 1)

\* variance < avgInterval * pct / 100 over the n = SeriesLen - 1 intervals:
\* sum((n * gap - S)^2) * 100 < pct * S * n^2, both sides being multiplied by n^3
VarianceUnder(pct) ==
  LET n == SeriesLen - 1
      limit == pct * GapSum(n) * n * n
  IN  Spread(n, n) < 0 - ((0 - limit) \div 100)

\* C17 as stated: from 2 events on, regular iff variance < avgInterval *
\* threshold, with 0.10 for the tracker and 0.15 for the detector.
C17_AsStated ==
  SeriesLen >= 2 =>
    /\ TrackedP => (ret.value.regularity = "regular" <=> VarianceUnder(10))
    /\ AssessedRegularity => (ret.value <=> VarianceUnder(15))

\* C17: from 3 events on, regular iff variance < avgInterval * threshold, with
\* 0.10 for the tracker and 0.15 for the detector; with fewer than 3 events
\* (exactly 2 included) the series is never regular.
C17_RegularityFromThreeEvents ==
  /\ SeriesLen >= 3 =>
       /\ TrackedP => (ret.value.regularity = "regular" <=> VarianceUnder(10))
       /\ AssessedRegularity => (ret.value <=> VarianceUnder(15))
  /\ SeriesLen < 3 =>
       /\ TrackedP => ret.value.regularity = "irregular"
       /\ AssessedRegularity => ret.value = FALSE

\* intervals of 857 and 877 ms: variance 100 lies between 86.7 and 130.05
C17_Witness ==
  /\ TrackedP
  /\ SeriesLen = 3
  /\ Gap(1) = 857 /\ Gap(2) = 877
  /\ ret.value.regularity = "irregular"
  /\ VarianceUnder(15)

-----------------------------------------------------------------------------
(* Morphology findings and confidence *)

Validated == call = "validateQRSvsTWave"
Supplied == analysis.components.items

\* a field's value if the field is present, else d; a present 0 is used as given
PresentOr(x, d) == IF x = {} THEN d ELSE CHOOSE v \in x : TRUE

StatedSharpOnset(c) == PresentOr(c.onset_slope, 60) > 50 /\ PresentOr(c.duration, 90) < 120
StatedRounded(c) == PresentOr(c.peak_sharpness, 40) < 30 /\ PresentOr(c.duration, 160) > 150

Reclassified(c) ==
  \E k \in 1..Len(ret.value.corrections) :
     /\ ret.value.corrections[k].component = c
     /\ ret.value.corrections[k].suggestion = "Reclassify as T wave"

RoundedIssue(c) ==
  \E k \in 1..Len(ret.value.issues) :
     /\ ret.value.issues[k][2] = c.time
     /\ ret.value.issues[k][3] = "ms has rounded morphology typical of T wave"

\* C18: an event gets a reclassify-as-T-wave finding iff its kind is QRS and
\* it fails (onsetSlope if present, else 0.6) > 0.5 and (duration if present,
\* else 90) < 120, a present value of 0 being used as given; P and T events
\* get no finding.
C18_ReclassifyFinding ==
  Validated =>
    \A i \in 1..Len(Supplied) :
       Reclassified(Supplied[i]) <=>
         (Supplied[i].type = "QRS" /\ ~StatedSharpOnset(Supplied[i]))

\* C19: a QRS event gets a rounded-morphology issue iff (peakSharpness if
\* present, else 0.4) < 0.3 and (duration if present, else 160) > 150, a
\* present value of 0 being used as given; the issue adds no reclassification,
\* the corrections being as many as the QRS events failing the sharp-onset test.
C19_RoundedIssue ==
  Validated =>
    /\ \A i \in 1..Len(Supplied) :
          Supplied[i].type = "QRS" => (RoundedIssue(Supplied[i]) <=> StatedRounded(Supplied[i]))
    /\ Len(ret.value.corrections) =
          Cardinality({i \in 1..Len(Supplied) :
                         Supplied[i].type = "QRS" /\ ~hasSharpOnset(Supplied[i])})

\* the score of one component: 0.9 for a QRS with sharp onset or a T with
\* rounded morphology, 0.6 in every other case
ScoreOf(c) ==
  IF (c.type = "QRS" /\ hasSharpOnset(c)) \/ (c.type = "T" /\ isRoundedMorphology(c))
  THEN Double(30198988, 214748365) ELSE Double(20132659, 53687091)

\* the scores of the first n components added up in the order supplied
RECURSIVE ScoreSum(_)
ScoreSum(n) == IF n = 0 THEN Double(0, 0) ELSE DoubleAdd(ScoreSum(n - 1), ScoreOf(Supplied[n]))

-----------------------------------------------------------------------------
(* Urgency against rate difference *)

Rank(urgency) == CASE urgency = "ROUTINE" -> 1 [] urgency = "URGENT" -> 2 [] urgency = "EMERGENT" -> 3

\* the detector returned on lists it finds dissociated and independently regular
DissociatedAndIndependent ==
  /\ Detected /\ ~ret.threw
  /\ checkAVDissociation(analysis.pWaves, analysis.qrsComplexes) = Return(TRUE)
  /\ assessIndependentRhythms(analysis.pWaves, analysis.qrsComplexes)

RateDifference == RateDiffOf(analysis.pWaves, analysis.qrsComplexes)

\* C21: with dissociation and independent rhythms both true, a call with a
\* rate difference at least as large as that of another call never returns a
\* lower urgency, in the order ROUTINE < URGENT < EMERGENT.
C21_UrgencyMonotone ==
  [][(/\ DissociatedAndIndependent /\ DissociatedAndIndependent'
      /\ RateDifference.k = "num" /\ RateDifference'.k = "num"
      /\ RateDifference.v <= RateDifference'.v)
     => Rank(ret.value.urgency) <= Rank(ret'.value.urgency)]_vars

\* dissociated, independent, rate difference 11: urgent
C21_Witness ==
  /\ DissociatedAndIndependent
  /\ RateDifference = Num(11)
  /\ ret.value.urgency = "URGENT"

-----------------------------------------------------------------------------
(* No state between calls *)

\* what the method named c returns on the object a, computed afresh
ResultOf(c, a) ==
  CASE c = "detectCompleteHeartBlock" -> detectCompleteHeartBlock(a.pWaves, a.qrsComplexes)
    [] c = "assessAVRelationship" -> assessAVRelationship(a)
    [] c = "trackAllComponents" -> trackAllComponents(a)

Methods == {"detectCompleteHeartBlock", "assessAVRelationship", "trackAllComponents"}

-----------------------------------------------------------------------------
(* The tracker's assessment against the detector's *)

AssessmentReturned == call = "assessAVRelationship" /\ ~ret.threw

\* C25: in every result of assessAVRelationship avDissociation is true iff
\* the type is COMPLETE_HEART_BLOCK; a 2ND_DEGREE or NORMAL result carries
\* avDissociation = false whatever the consistency ratio of the input.
C25_DissociationOnlyWithCompleteBlock ==
  AssessmentReturned =>
    /\ ret.value.avDissociation <=> ret.value.type = "COMPLETE_HEART_BLOCK"
    /\ ret.value.type \in {"2ND_DEGREE", "NORMAL"} => ~ret.value.avDissociation

\* a second-degree result on lists of which fewer than 70% of the pairs are
\* consistent
C25_Witness ==
  /\ AssessmentReturned
  /\ ret.value.type = "2ND_DEGREE"
  /\ checkAVDissociation(PLocations, QRSLocations) = Return(TRUE)
  /\ ~ret.value.avDissociation

TypeAgrees(trackerType, detectorType) ==
  \/ trackerType = "COMPLETE_HEART_BLOCK" /\ detectorType = "COMPLETE_HEART_BLOCK"
  \/ trackerType = "2ND_DEGREE" /\ detectorType = "SECOND_DEGREE_BLOCK"
  \/ trackerType = "NORMAL" /\ detectorType = "NO_BLOCK"

\* C26: when the rates of the two profiles are the ones computed from their
\* locations, the type assessAVRelationship returns agrees with the type
\* detectCompleteHeartBlock returns on those locations, with the same urgency
\* and the same rate difference.
C26_TrackerAgreesWithDetector ==
  (AssessmentReturned /\ ComputedProfiles) =>
    LET detection == detectCompleteHeartBlock(PLocations, QRSLocations)
    IN  /\ ~detection.threw
        /\ TypeAgrees(ret.value.type, detection.value.type)
        /\ ret.value.urgency = detection.value.urgency
        /\ ret.value.rateDifference = RateDiffOf(PLocations, QRSLocations)
        /\ detection.value.type = "SECOND_DEGREE_BLOCK" =>
              Mentions(detection.value.evidence, ret.value.rateDifference)

\* rates 70 and 50: a difference of 20 is second degree for both
C26_Witness ==
  /\ AssessmentReturned /\ ComputedProfiles
  /\ ret.value.type = "2ND_DEGREE"
  /\ ret.value.rateDifference = Num(20)
  /\ detectCompleteHeartBlock(PLocations, QRSLocations).value.type = "SECOND_DEGREE_BLOCK"

\* C30: the type assessAVRelationship returns is one of NORMAL, 2ND_DEGREE,
\* COMPLETE_HEART_BLOCK and the type detectCompleteHeartBlock returns is one
\* of NO_BLOCK, SECOND_DEGREE_BLOCK, COMPLETE_HEART_BLOCK: no first-degree
\* classification is ever emitted.
C30_NoFirstDegree ==
  /\ AssessmentReturned => ret.value.type \in {"NORMAL", "2ND_DEGREE", "COMPLETE_HEART_BLOCK"}
  /\ (Detected /\ ~ret.threw) =>
        ret.value.type \in {"NO_BLOCK", "SECOND_DEGREE_BLOCK", "COMPLETE_HEART_BLOCK"}

\* rates that differ by 10 or less, but differ: no block
C30_Witness ==
  /\ DetectedOnLists /\ ~ret.threw
  /\ Exceeds(RateDifference, 0)
  /\ ret.value.type = "NO_BLOCK"

-----------------------------------------------------------------------------
(* Validity against confidence *)

OnlyQRS == Len(Supplied) >= 1 /\ \A i \in 1..Len(Supplied) : Supplied[i].type = "QRS"

\* C29: for an input of QRS events only (at least one), isValid is true iff
\* every event is scored 0.9: no QRS event that draws an issue counts as
\* morphology-consistent in the confidence.
C29_ValidIffAllConsistent ==
  (Validated /\ OnlyQRS) =>
    (ret.value.isValid <=>
       \A i \in 1..Len(Supplied) : ScoreOf(Supplied[i]) = Double(30198988, 214748365))

-----------------------------------------------------------------------------
(* Callbacks waiting on a timer: setTimeout(fn, delay) *)

ScaleDelay == 3000   \* scaleAgentPool's simulated scaling
StartDelay == 100    \* routeTask's deferred processTask
SleepDelay == 1000   \* processTask's pause before each progress update

\* a timer just set
Timer(fn, delay, args) == [fn |-> fn, delay |-> delay, remaining |-> delay, args |-> args]

\* the sequence without its i-th element
Without(seq, i) == [k \in 1..(Len(seq) - 1) |-> IF k < i THEN seq[k] ELSE seq[k + 1]]

\* the time until the first pending timer is due
NextDue == CHOOSE d \in {timers[i].remaining : i \in DOMAIN timers} :
             \A i \in DOMAIN timers : d <= timers[i].remaining

\* the timers once d ms have passed
Elapsed(d) == [i \in DOMAIN timers |-> [timers[i] EXCEPT !.remaining = @ - d]]

FiresNext_AnyOrder(i) == timers[i].remaining = 0

\* timer i is due, and so is no timer of the same delay set before it: timers
\* of one delay run in the order they were set
FiresNext(i) ==
  /\ timers[i].remaining = 0
  /\ \A j \in 1..(i - 1) : timers[j].delay # timers[i].delay

\* how far the clock is let run in one step, besides up to the next due timer
Elapses == {100, 1000}

\* time passes while no timer is due
Advance ==
  /\ timers # <<>>
  /\ NextDue > 0
  /\ \E d \in Elapses \cup {NextDue} :
        /\ d <= NextDue
        /\ timers' = Elapsed(d)
  /\ UNCHANGED <<analysis, call, ret, agentPools, tasks, activityLogs, currentTaskId,
                 taskQueue, processingTasks, aiCalls>>

-----------------------------------------------------------------------------
(* scaleAgentPool, and the callback it leaves behind *)

MaxScales == 2

ScalePoolIds == {1, 4, 5}     \* two of the default pools and an id without a pool
ScaleCapacities == {2, 7}     \* below and above every default capacity

Min(a, b) == IF a <= b THEN a ELSE b

\* the logs scaleAgentPool's callbacks have written
ScaleLogs == SelectSeq(activityLogs, LAMBDA l : "newCapacity" \in DOMAIN l.metadata)

\* the callbacks of scaleAgentPool still pending
ScaleTimers == SelectSeq(timers, LAMBDA t : t.fn = "scaled")

ScaleAgentPool ==
  /\ Len(ScaleLogs) + Len(ScaleTimers) < MaxScales
  /\ \E poolId \in ScalePoolIds, newCapacity \in ScaleCapacities :
        LET pool == getAgentPool(poolId)
        IN  IF pool = Undefined
            THEN /\ ret' = Throw(<<"Agent pool ", poolId, " not found">>)
                 /\ UNCHANGED <<agentPools, timers>>
            ELSE /\ agentPools' = updateAgentPool(poolId,
                                    [capacity |-> newCapacity,
                                     activeAgents |-> Min(newCapacity, pool.activeAgents),
                                     status |-> "scaling"])
                 /\ timers' = Append(timers,
                                Timer("scaled", ScaleDelay,
                                      [poolId |-> poolId, newCapacity |-> newCapacity,
                                       name |-> pool.name]))
                 /\ ret' = Return(Undefined)
  /\ call' = "scaleAgentPool"
  /\ UNCHANGED <<analysis, tasks, activityLogs, currentTaskId, taskQueue, processingTasks, aiCalls>>

\* the callback of scaleAgentPool's setTimeout
Scaled ==
  \E i \in DOMAIN timers :
    /\ timers[i].fn = "scaled"
    /\ FiresNext(i)
    /\ LET a == timers[i].args
       IN  /\ agentPools' = updateAgentPool(a.poolId,
                              [activeAgents |-> a.newCapacity, status |-> "online"])
           /\ activityLogs' = createActivityLog(
                                [type |-> "system",
                                 message |-> <<a.name, " agent pool scaled to ",
                                               a.newCapacity, " agents">>,
                                 metadata |-> [poolId |-> a.poolId,
                                               newCapacity |-> a.newCapacity]])
    /\ timers' = Without(timers, i)
  /\ UNCHANGED <<analysis, call, ret, tasks, currentTaskId, taskQueue, processingTasks, aiCalls>>

NextPools == ScaleAgentPool \/ Scaled \/ Advance

InitPools ==
  /\ analysis = [pWaves |-> Undefined, qrsComplexes |-> Undefined,
                 pWaveTracking |-> Undefined, qrsTracking |-> Undefined,
                 components |-> Undefined]
  /\ call = "none"
  /\ ret = Return("none")
  /\ Constructed

SpecPools == InitPools /\ [][NextPools]_vars

-----------------------------------------------------------------------------
(* routeTask, processTask and the AI service call it waits for *)

MaxTasks == 2

\* the four types the routing test sends, and one typeMapping does not know
TaskTypes ==
  {"medical_analysis", "stock_analysis", "workflow_automation", "sports_betting",
   "translation"}

TaskInputs == {[query |-> "q"]}

FirstProgress == 20   \* for (let progress = 20; ...
LastProgress == 80    \* ... progress <= 80; ...
ProgressStep == 20    \* ... progress += 20)

\* the ids given out since time last passed: their processTask timers have not
\* begun to run down
DrawnThisInstant ==
  {timers[i].args.taskId :
     i \in {j \in DOMAIN timers : /\ timers[j].fn = "processTask"
                                  /\ timers[j].remaining = StartDelay}}

\* `TK-${Date.now()}-${Math.floor(Math.random() * 1000)}`: an id no earlier call
\* was given, or, the clock reading the same and the draw falling alike, the id
\* of a call made in the same instant
TaskIds == {<<"TK-", currentTaskId>>} \cup DrawnThisInstant

\* the index of the first element of seq that is x, 0 when there is none
\* (indexOf, counted from 1)
IndexOf(seq, x) ==
  IF \E k \in DOMAIN seq : seq[k] = x
  THEN CHOOSE k \in DOMAIN seq : seq[k] = x /\ \A j \in 1..(k - 1) : seq[j] # x
  ELSE 0

\* taskQueue after the finally block of processTask(taskId)
Dequeued(taskId) ==
  IF IndexOf(taskQueue, taskId) > 0
  THEN Without(taskQueue, IndexOf(taskQueue, taskId))
  ELSE taskQueue

RouteTask ==
  /\ currentTaskId <= MaxTasks
  /\ \E type \in TaskTypes, input \in TaskInputs :
        LET suitablePool == findSuitableAgentPool(type, getAllAgentPools)
        IN  IF suitablePool = Null
            THEN /\ ret' = Throw(<<"No suitable agent pool found for task type: ", type>>)
                 /\ UNCHANGED <<tasks, currentTaskId, taskQueue, activityLogs, timers>>
            ELSE \E taskId \in TaskIds :
                   /\ tasks' = createTask([taskId |-> taskId, type |-> type,
                                           agentPoolId |-> suitablePool.id,
                                           status |-> "queued", input |-> input,
                                           metadata |-> NoMetadata, progress |-> 0])
                   /\ currentTaskId' = currentTaskId + 1
                   /\ taskQueue' = Append(taskQueue, taskId)
                   /\ activityLogs' = createActivityLog(
                                        [type |-> "task",
                                         message |-> <<"New ", type, " task queued">>,
                                         metadata |-> [taskId |-> taskId]])
                   /\ timers' = Append(timers,
                                  Timer("processTask", StartDelay, [taskId |-> taskId]))
                   /\ ret' = Return(taskId)
  /\ call' = "routeTask"
  /\ UNCHANGED <<analysis, agentPools, processingTasks, aiCalls>>

\* processTask up to its first pause
ProcessTask ==
  \E i \in DOMAIN timers :
    /\ timers[i].fn = "processTask"
    /\ FiresNext(i)
    /\ LET taskId == timers[i].args.taskId
       IN  IF taskId \in processingTasks \/ taskId \notin DOMAIN tasks
           THEN /\ timers' = Without(timers, i)
                /\ UNCHANGED <<tasks, processingTasks>>
           ELSE /\ processingTasks' = processingTasks \cup {taskId}
                /\ tasks' = updateTask(taskId, [status |-> "processing", progress |-> 10])
                /\ timers' = Append(Without(timers, i),
                               Timer("resolve", SleepDelay,
                                     [taskId |-> taskId, progress |-> FirstProgress,
                                      task |-> tasks[taskId]]))
  /\ UNCHANGED <<analysis, call, ret, agentPools, activityLogs, currentTaskId, taskQueue, aiCalls>>

\* processTask from the end of a pause to the next pause, or to the call of the
\* AI service
Resumed ==
  \E i \in DOMAIN timers :
    /\ timers[i].fn = "resolve"
    /\ FiresNext(i)
    /\ LET a == timers[i].args
       IN  /\ tasks' = updateTask(a.taskId, [progress |-> a.progress])
           /\ IF a.progress + ProgressStep <= LastProgress
              THEN /\ timers' = Append(Without(timers, i),
                                  Timer("resolve", SleepDelay,
                                        [a EXCEPT !.progress = @ + ProgressStep]))
                   /\ UNCHANGED aiCalls
              ELSE /\ timers' = Without(timers, i)
                   /\ aiCalls' = Append(aiCalls, [taskId |-> a.taskId, task |-> a.task])
  /\ UNCHANGED <<analysis, call, ret, agentPools, activityLogs, currentTaskId, taskQueue,
                 processingTasks>>

\* openAIService.processTask returns: the rest of the try block, then finally
AIReturns ==
  \E i \in DOMAIN aiCalls :
    LET taskId == aiCalls[i].taskId
    IN  /\ tasks' = updateTask(taskId, [status |-> "completed", progress |-> 100,
                                         output |-> [response |-> aiCalls[i].task.type]])
        /\ activityLogs' = createActivityLog(
                             [type |-> "task",
                              message |-> <<aiCalls[i].task.type, " task completed">>,
                              metadata |-> [taskId |-> taskId]])
        /\ processingTasks' = processingTasks \ {taskId}
        /\ taskQueue' = Dequeued(taskId)
        /\ aiCalls' = Without(aiCalls, i)
        /\ UNCHANGED <<analysis, call, ret, agentPools, currentTaskId, timers>>

\* openAIService.processTask throws: the catch block, then finally
AIThrows ==
  \E i \in DOMAIN aiCalls :
    LET taskId == aiCalls[i].taskId
    IN  /\ tasks' = updateTask(taskId, [status |-> "failed",
                                         output |-> [error |-> "message"]])
        /\ activityLogs' = createActivityLog(
                             [type |-> "error",
                              message |-> <<"Task ", taskId, " failed">>,
                              metadata |-> [taskId |-> taskId, error |-> "message"]])
        /\ processingTasks' = processingTasks \ {taskId}
        /\ taskQueue' = Dequeued(taskId)
        /\ aiCalls' = Without(aiCalls, i)
        /\ UNCHANGED <<analysis, call, ret, agentPools, currentTaskId, timers>>

NextTasks == RouteTask \/ ProcessTask \/ Resumed \/ AIReturns \/ AIThrows \/ Advance

InitTasks ==
  /\ analysis = [pWaves |-> Undefined, qrsComplexes |-> Undefined,
                 pWaveTracking |-> Undefined, qrsTracking |-> Undefined,
                 components |-> Undefined]
  /\ call = "none"
  /\ ret = Return("none")
  /\ Constructed

SpecTasks == InitTasks /\ [][NextTasks]_vars

-----------------------------------------------------------------------------
(* C23, C27: scaling a pool *)

Last(seq) == seq[Len(seq)]

\* the callbacks still pending for pool p, in the order of the calls that set them
PendingFor(p) == SelectSeq(ScaleTimers, LAMBDA t : t.args.poolId = p)

\* the scalings of pool p that have completed, in the order they completed
CompletedFor(p) == SelectSeq(ScaleLogs, LAMBDA l : l.metadata.poolId = p)

\* C23: after scaleAgentPool(poolId, n) on an existing pool the stored capacity is
\* n, the capacity of the most recent call while callbacks for the pool are
\* pending; once they have all run, in the order of their calls, capacity and
\* activeAgents are both the capacity of the most recent call and the status is
\* online.
C23_ScaledToLastRequest ==
  \A p \in DOMAIN agentPools :
    /\ PendingFor(p) # <<>> =>
         agentPools[p].capacity = Last(PendingFor(p)).args.newCapacity
    /\ (PendingFor(p) = <<>> /\ CompletedFor(p) # <<>>) =>
         /\ agentPools[p].capacity = Last(CompletedFor(p)).metadata.newCapacity
         /\ agentPools[p].activeAgents = Last(CompletedFor(p)).metadata.newCapacity
         /\ agentPools[p].status = "online"

\* a pool scaled twice, to different capacities, with both callbacks run
C23_Witness ==
  \E p \in DOMAIN agentPools :
    /\ PendingFor(p) = <<>>
    /\ Len(CompletedFor(p)) = 2
    /\ CompletedFor(p)[1].metadata.newCapacity # CompletedFor(p)[2].metadata.newCapacity

\* C27: under any interleaving of scaleAgentPool calls and their callbacks, every
\* pool has activeAgents <= capacity.
C27_ActiveWithinCapacity ==
  \A p \in DOMAIN agentPools : agentPools[p].activeAgents <= agentPools[p].capacity

-----------------------------------------------------------------------------
(* C24, C28: routing a task and carrying it through *)

\* the types testTaskRouting sends
TestTaskTypes == {"medical_analysis", "stock_analysis", "workflow_automation", "sports_betting"}

\* C24: from the default state of the storage, routeTask succeeds for each of
\* medical_analysis, stock_analysis, workflow_automation and sports_betting: it
\* returns an id beginning with TK- and a task with that id is in the storage.
C24_RoutesEveryTestType ==
  call = "routeTask" =>
    IF ret.threw
    THEN ret.error[2] \notin TestTaskTypes
    ELSE ret.value[1] = "TK-" /\ ret.value \in DOMAIN tasks

\* C28: a task that has reached completed or failed has its id in neither
\* taskQueue nor processingTasks.
C28_TerminalLeavesQueues ==
  \A taskId \in DOMAIN tasks :
    tasks[taskId].status \in {"completed", "failed"} =>
      /\ taskId \notin processingTasks
      /\ IndexOf(taskQueue, taskId) = 0

=============================================================================
